---- MODULE Spec2Model ----
(***************************************************************************)
(* Model of windns-sd (src/src/main.rs): a Windows service that loads a    *)
(* table of services, registers one DNS-SD advertisement per entry, and    *)
(* follows the host's service lifecycle.                                   *)
(*                                                                         *)
(* Threads: the supervisor (run_service), one worker thread per entry,     *)
(* and the host's thread that invokes the control callback event_handler.  *)
(* A panic of run_service or of the callback crosses an extern "system"    *)
(* frame and ends the process (proc = "aborted").                          *)
(***************************************************************************)
EXTENDS Integers, Sequences, FiniteSets, TLC

\* ---------------------------------------------------------------- bounds
MaxKeys == 2        \* keys the config file may hold
MaxEvents == 2      \* control notifications the host raises in a run
MaxRecvErrs == 1    \* receive timeouts logged by the control loop

\* ------------------------------------------------------ program constants
MaxPort == 65535    \* ServiceConfig.port is a u16

KeySet == 1..MaxKeys
Controls == {"Interrogate", "Stop", "Pause"}
\* a port field as written in the file: an integer, or a string
RawPorts == {[kind |-> "int", val |-> 0], [kind |-> "int", val |-> 631],
             [kind |-> "int", val |-> MaxPort + 1], [kind |-> "str", val |-> 0]}
\* ports the OS may hand to a listener bound to port 0
EphemeralPorts == {49152, MaxPort}
Files == {[exists |-> FALSE, entries |-> <<>>]} \cup
         UNION { {[exists |-> TRUE, entries |-> f] : f \in [S -> RawPorts]} : S \in SUBSET KeySet }

VARIABLES
    file,        \* content of $ProgramData/windns-sd/config.toml
    pc,          \* position of run_service
    proc,        \* "alive", "exited" (main returned), "aborted" (panic)
    chan,        \* events sent on service_control_tx, not yet received
    reports,     \* statuses the host accepted through set_service_status
    statusErr,   \* state whose set_service_status failed, or "none"
    config,      \* Settings.services once loaded: key -> configured port
    cfgErr,      \* Settings::from_file returned Err
    todo,        \* entries the for loop has not visited yet
    cur,         \* entry being processed: [key, port, ok]
    allocFailed, \* entries whose available_port() returned Err
    allocRet,    \* key -> port available_port() returned (0: not called)
    regPort,     \* key -> port handed to DNSServiceBuilder::new (0: not called)
    regCalls,    \* key -> number of register() calls
    regFailed,   \* entries whose register() returned Err
    spawns,      \* key -> number of std::thread::spawn calls
    worker,      \* key -> state of the entry's thread
    handle,      \* key -> state of the entry's registration handle
    workerLog,   \* entries whose worker printed "Error registering service"
    recvErrs,    \* "Error receiving service control event" lines printed
    nRecv,       \* events recv_timeout handed to the control loop
    nSent,       \* events event_handler put on the channel
    nCalls,      \* invocations of event_handler
    nStops,      \* Stop notifications delivered to event_handler
    cb           \* last invocation of event_handler: [ctl, result]

vars == <<file, pc, proc, chan, reports, statusErr, config, cfgErr, todo, cur,
          allocFailed, allocRet, regPort, regCalls, regFailed, spawns, worker, handle,
          workerLog, recvErrs, nRecv, nSent, nCalls, nStops, cb>>

supVars == <<pc, reports, statusErr, config, cfgErr, todo, cur, allocFailed,
             allocRet, regPort, regCalls, regFailed, spawns>>
cbVars == <<nCalls, nStops, nSent, cb>>
wkVars == <<worker, handle, workerLog>>

\* ------------------------------------------------------- pure functions
\* Settings::from_file: Err for a missing file or a port that is no u16
from_file_ok(f) ==
    /\ f.exists
    /\ \A k \in DOMAIN f.entries :
          /\ f.entries[k].kind = "int"
          /\ f.entries[k].val \in 0..MaxPort

from_file(f) == [k \in DOMAIN f.entries |-> f.entries[k].val]

\* the status records run_service reports
RunningStatus == [state |-> "Running", accepts |-> {"Stop"}]
\* variant: StopPending still announces Stop as accepted
StopPendingStatus_AcceptsStop == [state |-> "StopPending", accepts |-> {"Stop"}]
StopPendingStatus == [state |-> "StopPending", accepts |-> {}]
\* variant: the final report repeats StopPending
StoppedStatus_Repeat == [state |-> "StopPending", accepts |-> {}]
StoppedStatus == [state |-> "Stopped", accepts |-> {}]

\* variants of event_handler's forwarding: nothing forwarded; Interrogate forwarded too
HandlerSends_None(ctl) == FALSE
HandlerSends_Interrogate(ctl) == ctl \in {"Stop", "Interrogate"}

\* variant: every notification but Interrogate is forwarded
HandlerSends_Other(ctl) == ctl # "Interrogate"

\* event_handler: does this notification go onto the channel?
HandlerSends(ctl) == ctl = "Stop"

\* event_handler: value returned to the host ("panic": send(..).unwrap() failed)
HandlerResult(ctl, rxAlive) ==
    CASE ctl = "Interrogate" -> "NoError"
      [] ctl = "Stop" -> IF rxAlive THEN "NoError" ELSE "panic"
      [] OTHER -> "NotImplemented"

\* variant: the configured port is passed on as it is
ResolvePort_Raw(cfgPort, alloc) == cfgPort

\* port resolution of the for loop; alloc is available_port()'s Ok value
ResolvePort(cfgPort, alloc) == IF cfgPort = 0 THEN alloc ELSE cfgPort

\* does the port resolution call available_port()?
NeedsAlloc(cfgPort) == cfgPort = 0

\* variant: register().unwrap()
AfterRegister_Unwrap(ok) == IF ok THEN "spawnThread" ELSE "panicked"

\* position of run_service after register() returned
AfterRegister(ok) == "spawnThread"

\* variant: a thread only for a successful registration
SpawnsThread_OkOnly(ok) == ok

\* is a thread spawned for the entry whose register() returned ok?
SpawnsThread(ok) == TRUE

\* variant: the Stop arm does not break out of the loop
AfterStopPending_NoBreak == "loop"

\* position of run_service after the control loop matched a received Stop
AfterStopPending == "reportStopped"

\* variant: the received event is left at the head of the channel
AfterRecv_Peek(ch) == ch

\* the channel after recv_timeout returned Ok(Head(ch))
AfterRecv(ch) == Tail(ch)

\* variants: a receive error ends the loop; a receive error is taken for a Stop
AfterRecvErr_Break == "reportStopped"
AfterRecvErr_Stop == "reportStopPending"

\* position of run_service after the Err arm of the control loop
AfterRecvErr == "loop"

NoKey == 0
NoCur == [key |-> NoKey, port |-> 0, ok |-> FALSE]
NoCb == [ctl |-> "none", result |-> "none"]

\* service_control_rx lives until run_service returns
RxAlive == pc \notin {"done", "failed"}
\* event_handler is installed once service_control_handler::register returned
Registered == pc # "register"

\* ------------------------------------------------------------------ Init
Init ==
    /\ file \in Files
    /\ pc = "register"
    /\ proc = "alive"
    /\ chan = <<>>
    /\ reports = <<>>
    /\ statusErr = "none"
    /\ config = <<>>
    /\ cfgErr = FALSE
    /\ todo = {}
    /\ cur = NoCur
    /\ allocFailed = {}
    /\ allocRet = [k \in KeySet |-> 0]
    /\ regPort = [k \in KeySet |-> 0]
    /\ regCalls = [k \in KeySet |-> 0]
    /\ regFailed = {}
    /\ spawns = [k \in KeySet |-> 0]
    /\ worker = [k \in KeySet |-> "none"]
    /\ handle = [k \in KeySet |-> "none"]
    /\ workerLog = {}
    /\ recvErrs = 0
    /\ nRecv = 0
    /\ nSent = 0
    /\ nCalls = 0
    /\ nStops = 0
    /\ cb = NoCb

\* ------------------------------------------------- supervisor: run_service
\* service_control_handler::register(SERVICE_NAME, event_handler)?
RegisterHandler ==
    /\ proc = "alive" /\ pc = "register"
    /\ \E ok \in BOOLEAN :
          pc' = IF ok THEN "reportRunning" ELSE "failed"
    /\ UNCHANGED <<file, proc, chan, reports, statusErr, config, cfgErr, todo, cur,
                   allocFailed, allocRet, regPort, regCalls, regFailed, spawns,
                   recvErrs, nRecv>>
    /\ UNCHANGED cbVars /\ UNCHANGED wkVars

\* variant: the result of set_service_status is ignored
Report_Ignore(st, next) ==
    \E ok \in BOOLEAN :
        /\ reports' = IF ok THEN Append(reports, st) ELSE reports
        /\ statusErr' = IF ok \/ statusErr # "none" THEN statusErr ELSE st.state
        /\ pc' = next

\* set_service_status(st)?, then continue at next
Report(st, next) ==
    \E ok \in BOOLEAN :
        IF ok
        THEN /\ reports' = Append(reports, st)
             /\ pc' = next
             /\ UNCHANGED statusErr
        ELSE /\ statusErr' = st.state
             /\ pc' = "failed"
             /\ UNCHANGED reports

ReportRunning ==
    /\ proc = "alive" /\ pc = "reportRunning"
    /\ Report(RunningStatus, "loadConfig")
    /\ UNCHANGED <<file, proc, chan, config, cfgErr, todo, cur,
                   allocFailed, allocRet, regPort, regCalls, regFailed, spawns,
                   recvErrs, nRecv>>
    /\ UNCHANGED cbVars /\ UNCHANGED wkVars

\* env::var("ProgramData").unwrap(), Settings::from_file(..).unwrap()
LoadConfig ==
    /\ proc = "alive" /\ pc = "loadConfig"
    /\ IF from_file_ok(file)
       THEN /\ config' = from_file(file)
            /\ todo' = DOMAIN file.entries
            /\ pc' = IF DOMAIN file.entries = {} THEN "loop" ELSE "iter"
            /\ UNCHANGED <<cfgErr, proc>>
       ELSE /\ cfgErr' = TRUE
            /\ pc' = "panicked"
            /\ proc' = "aborted"
            /\ UNCHANGED <<config, todo>>
    /\ UNCHANGED <<file, chan, reports, statusErr, cur,
                   allocFailed, allocRet, regPort, regCalls, regFailed, spawns,
                   recvErrs, nRecv>>
    /\ UNCHANGED cbVars /\ UNCHANGED wkVars

\* next entry of the for loop and its port: available_port().unwrap() or
\* the configured port
NextEntry ==
    /\ proc = "alive" /\ pc = "iter"
    /\ \E k \in todo :
          /\ todo' = todo \ {k}
          /\ IF NeedsAlloc(config[k])
             THEN \/ \E p \in EphemeralPorts :
                        /\ allocRet' = [allocRet EXCEPT ![k] = p]
                        /\ cur' = [key |-> k, port |-> ResolvePort(config[k], p), ok |-> FALSE]
                        /\ pc' = "register_dns"
                        /\ UNCHANGED <<allocFailed, proc>>
                  \/ /\ allocFailed' = allocFailed \cup {k}
                     /\ pc' = "panicked"
                     /\ proc' = "aborted"
                     /\ UNCHANGED <<cur, allocRet>>
             ELSE /\ cur' = [key |-> k, port |-> ResolvePort(config[k], 0), ok |-> FALSE]
                  /\ pc' = "register_dns"
                  /\ UNCHANGED <<allocFailed, allocRet, proc>>
    /\ UNCHANGED <<file, chan, reports, statusErr, config, cfgErr,
                   regPort, regCalls, regFailed, spawns, recvErrs, nRecv>>
    /\ UNCHANGED cbVars /\ UNCHANGED wkVars

\* DNSServiceBuilder::new(type, port)...register(), on the supervisor thread
DnsRegister ==
    /\ proc = "alive" /\ pc = "register_dns"
    /\ \E ok \in BOOLEAN :
          /\ cur' = [cur EXCEPT !.ok = ok]
          /\ regFailed' = IF ok THEN regFailed ELSE regFailed \cup {cur.key}
          /\ handle' = IF ok THEN [handle EXCEPT ![cur.key] = "live"] ELSE handle
          /\ pc' = AfterRegister(ok)
          /\ proc' = IF AfterRegister(ok) = "panicked" THEN "aborted" ELSE proc
    /\ regPort' = [regPort EXCEPT ![cur.key] = cur.port]
    /\ regCalls' = [regCalls EXCEPT ![cur.key] = @ + 1]
    /\ UNCHANGED <<file, chan, reports, statusErr, config, cfgErr, todo,
                   allocFailed, allocRet, spawns, worker, workerLog, recvErrs, nRecv>>
    /\ UNCHANGED cbVars

\* std::thread::spawn(move || match service {..}); the result moves into it
SpawnThread ==
    /\ proc = "alive" /\ pc = "spawnThread"
    /\ IF SpawnsThread(cur.ok)
       THEN /\ spawns' = [spawns EXCEPT ![cur.key] = @ + 1]
            /\ worker' = [worker EXCEPT ![cur.key] = IF cur.ok THEN "startedOk" ELSE "startedErr"]
       ELSE UNCHANGED <<spawns, worker>>
    /\ cur' = NoCur
    /\ pc' = IF todo = {} THEN "loop" ELSE "iter"
    /\ UNCHANGED <<file, proc, chan, reports, statusErr, config, cfgErr, todo,
                   allocFailed, allocRet, regPort, regCalls, regFailed, handle, workerLog,
                   recvErrs, nRecv>>
    /\ UNCHANGED cbVars

\* service_control_rx.recv_timeout(1s) returned Ok(control_event)
RecvOk ==
    /\ proc = "alive" /\ pc = "loop"
    /\ chan # <<>>
    /\ chan' = AfterRecv(chan)
    /\ nRecv' = nRecv + 1
    /\ pc' = IF Head(chan) = "Stop" THEN "reportStopPending" ELSE "loop"
    /\ UNCHANGED <<file, proc, reports, statusErr, config, cfgErr, todo, cur,
                   allocFailed, allocRet, regPort, regCalls, regFailed, spawns, recvErrs>>
    /\ UNCHANGED cbVars /\ UNCHANGED wkVars

\* recv_timeout returned Err (timeout): printed, the loop polls again
RecvErr ==
    /\ proc = "alive" /\ pc = "loop"
    /\ chan = <<>>
    /\ recvErrs < MaxRecvErrs
    /\ recvErrs' = recvErrs + 1
    /\ pc' = AfterRecvErr
    /\ UNCHANGED <<file, proc, chan, nRecv, reports, statusErr, config, cfgErr, todo,
                   cur, allocFailed, allocRet, regPort, regCalls, regFailed, spawns>>
    /\ UNCHANGED cbVars /\ UNCHANGED wkVars

ReportStopPending ==
    /\ proc = "alive" /\ pc = "reportStopPending"
    /\ Report(StopPendingStatus, AfterStopPending)
    /\ UNCHANGED <<file, proc, chan, config, cfgErr, todo, cur,
                   allocFailed, allocRet, regPort, regCalls, regFailed, spawns,
                   recvErrs, nRecv>>
    /\ UNCHANGED cbVars /\ UNCHANGED wkVars

ReportStopped ==
    /\ proc = "alive" /\ pc = "reportStopped"
    /\ Report(StoppedStatus, "done")
    /\ UNCHANGED <<file, proc, chan, config, cfgErr, todo, cur,
                   allocFailed, allocRet, regPort, regCalls, regFailed, spawns,
                   recvErrs, nRecv>>
    /\ UNCHANGED cbVars /\ UNCHANGED wkVars

\* run_service returned; windns_sd_service_main and main return
ProcessExit ==
    /\ proc = "alive" /\ pc \in {"done", "failed"}
    /\ proc' = "exited"
    /\ UNCHANGED <<file, chan, recvErrs, nRecv>>
    /\ UNCHANGED supVars /\ UNCHANGED cbVars /\ UNCHANGED wkVars

\* ------------------------------------------------- host: event_handler
Callback(ctl) ==
    /\ proc = "alive" /\ Registered
    /\ nCalls < MaxEvents
    /\ nCalls' = nCalls + 1
    /\ nStops' = IF ctl = "Stop" THEN nStops + 1 ELSE nStops
    /\ cb' = [ctl |-> ctl, result |-> HandlerResult(ctl, RxAlive)]
    /\ IF HandlerSends(ctl)
       THEN IF RxAlive
            THEN chan' = Append(chan, ctl) /\ nSent' = nSent + 1 /\ UNCHANGED proc
            ELSE proc' = "aborted" /\ UNCHANGED <<chan, nSent>>
       ELSE UNCHANGED <<chan, proc, nSent>>
    /\ UNCHANGED <<file, recvErrs, nRecv>>
    /\ UNCHANGED supVars /\ UNCHANGED wkVars

\* ------------------------------------------------- worker threads
\* Ok(service) => std::thread::park()
WorkerPark(k) ==
    /\ proc = "alive" /\ worker[k] = "startedOk"
    /\ worker' = [worker EXCEPT ![k] = "parked"]
    /\ UNCHANGED <<file, proc, chan, recvErrs, nRecv, handle, workerLog>>
    /\ UNCHANGED supVars /\ UNCHANGED cbVars

\* park() may return spuriously: the arm ends and service is dropped
WorkerWake(k) ==
    /\ proc = "alive" /\ worker[k] = "parked"
    /\ worker' = [worker EXCEPT ![k] = "finished"]
    /\ handle' = [handle EXCEPT ![k] = "released"]
    /\ UNCHANGED <<file, proc, chan, recvErrs, nRecv, workerLog>>
    /\ UNCHANGED supVars /\ UNCHANGED cbVars

\* Err(e) => println!("Error registering service"), the thread ends
WorkerLogErr(k) ==
    /\ proc = "alive" /\ worker[k] = "startedErr"
    /\ worker' = [worker EXCEPT ![k] = "finished"]
    /\ workerLog' = workerLog \cup {k}
    /\ UNCHANGED <<file, proc, chan, recvErrs, nRecv, handle>>
    /\ UNCHANGED supVars /\ UNCHANGED cbVars

Supervisor ==
    \/ RegisterHandler
    \/ ReportRunning
    \/ LoadConfig
    \/ NextEntry
    \/ DnsRegister
    \/ SpawnThread
    \/ RecvOk
    \/ RecvErr
    \/ ReportStopPending
    \/ ReportStopped
    \/ ProcessExit

Host == \E ctl \in Controls : Callback(ctl)

Workers == \E k \in KeySet : WorkerPark(k) \/ WorkerWake(k) \/ WorkerLogErr(k)

Next == Supervisor \/ Host \/ Workers

Spec == Init /\ [][Next]_vars

\* fairness: the supervisor thread and the worker threads are scheduled, and
\* the calls they make return; a parked worker need not wake, the host need
\* not raise a notification
LiveSpec ==
    /\ Init /\ [][Next]_vars
    /\ WF_vars(Supervisor)
    /\ \A k \in KeySet : WF_vars(WorkerPark(k) \/ WorkerLogErr(k))

\* ------------------------------------------------------------ properties
StatesOf(rs) == [i \in 1..Len(rs) |-> rs[i].state]
Rank(st) == CASE st = "Starting" -> 0 [] st = "Running" -> 1
              [] st = "StopPending" -> 2 [] st = "Stopped" -> 3
Loaded == pc \in {"iter", "register_dns", "spawnThread", "loop",
                  "reportStopPending", "reportStopped", "done"}
          \/ (pc = "failed" /\ statusErr \in {"StopPending", "Stopped"})
          \/ (pc = "panicked" /\ ~cfgErr)
ReachedLoop == pc \in {"loop", "reportStopPending", "reportStopped", "done"}
               \/ (pc = "failed" /\ statusErr \in {"StopPending", "Stopped"})

\* C1: once the control loop has received a Stop (the last reported state
\* being Running), the reports that follow are StopPending and then Stopped,
\* in that order, with nothing between them and nothing after Stopped.
C1_StopSequence ==
    /\ pc = "reportStopPending" => StatesOf(reports) = <<"Running">>
    /\ (pc = "failed" /\ statusErr = "StopPending") => StatesOf(reports) = <<"Running">>
    /\ pc = "reportStopped" => StatesOf(reports) = <<"Running", "StopPending">>
    /\ (pc = "failed" /\ statusErr = "Stopped") => StatesOf(reports) = <<"Running", "StopPending">>
    /\ pc = "done" => StatesOf(reports) = <<"Running", "StopPending", "Stopped">>

C1_Witness ==
    /\ pc = "done" /\ nStops >= 1
    /\ StatesOf(reports) = <<"Running", "StopPending", "Stopped">>

\* C2: under LiveSpec, if startup completes and status reports succeed
\* (run_service neither panics nor returns an error), a Stop delivered to
\* the callback at any time leads to Stopped being reported and run_service
\* returning.
NoFault == pc \notin {"failed", "panicked"}
Returned == pc = "done" /\ reports # <<>> /\ reports[Len(reports)].state = "Stopped"
C2_StopLeadsToStopped == ([]NoFault) => [](nStops > 0 => <>Returned)

\* a Stop delivered during startup, before the control loop is entered
C2_Witness == nStops > 0 /\ pc \in {"loadConfig", "iter", "register_dns", "spawnThread"}

\* C3 (as claimed): when loading the configuration fails, no worker was
\* spawned and Running was never reported.
C3_AbortBeforeRunning ==
    cfgErr => /\ \A k \in KeySet : spawns[k] = 0
              /\ \A i \in 1..Len(reports) : reports[i].state # "Running"

\* C4 (as claimed): a failure of available_port for one entry does not abort
\* run_service; the other entries are still spawned and the loop is entered.
C4_AllocIsolation ==
    allocFailed # {} =>
        /\ pc # "panicked"
        /\ (ReachedLoop => \A k \in DOMAIN config \ allocFailed : spawns[k] = 1)

\* C5: an Interrogate delivered to the callback returns NoError and changes
\* neither the channel nor the supervisor's position, its reports, the
\* workers or the process.
C5_InterrogateFrame ==
    [][(nCalls' = nCalls + 1 /\ cb'.ctl = "Interrogate") =>
          /\ cb'.result = "NoError"
          /\ UNCHANGED <<chan, proc, worker, handle, workerLog>>
          /\ UNCHANGED supVars]_vars

C5_Witness == cb = [ctl |-> "Interrogate", result |-> "NoError"] /\ pc = "loop" /\ chan = <<>>

\* C6 (as claimed): every Stop delivered to the callback returns NoError.
C6_StopAcknowledged == cb.ctl = "Stop" => cb.result = "NoError"

\* C7: when the supervisor is in the control loop, exactly one thread has
\* been spawned for every key of the table, and none for any other key.
C7_OneSpawnPerEntry ==
    pc = "loop" => \A k \in KeySet : spawns[k] = IF k \in DOMAIN config THEN 1 ELSE 0

C7_Witness ==
    /\ pc = "loop" /\ regFailed # {}
    /\ \E k1, k2 \in DOMAIN config : config[k1] = 0 /\ config[k2] # 0
    /\ \A k \in DOMAIN config : spawns[k] = 1

\* C8: the port handed to the registration is in 1..65535, is the configured
\* port when that is nonzero and the port available_port returned when it
\* is 0; the loaded table keeps the ports of the file.
C8_PortResolution ==
    /\ \A k \in KeySet : regCalls[k] > 0 =>
          /\ regPort[k] \in 1..MaxPort
          /\ config[k] # 0 => regPort[k] = config[k]
          /\ config[k] = 0 => (allocRet[k] # 0 /\ regPort[k] = allocRet[k])
    /\ Loaded => config = from_file(file)

C8_Witness ==
    \E k1, k2 \in DOMAIN config :
        /\ regCalls[k1] = 1 /\ config[k1] = 0 /\ regPort[k1] = allocRet[k1]
        /\ regCalls[k2] = 1 /\ config[k2] = 631 /\ regPort[k2] = 631

\* C9: the reported states are strictly increasing in the order
\* Starting < Running < StopPending < Stopped, and a run that reaches the
\* control loop has reported Running exactly once.
C9_ReportsIncrease ==
    /\ \A i, j \in 1..Len(reports) :
          i < j => Rank(reports[i].state) < Rank(reports[j].state)
    /\ ReachedLoop => Cardinality({i \in 1..Len(reports) : reports[i].state = "Running"}) = 1

C9_Witness == Len(reports) = 3 /\ pc = "done" /\ proc = "exited"

\* C10: a failed registration leaves run_service on its way to spawn the
\* entry's thread, with the entries still to visit, the reports and the
\* other workers untouched; the thread of a failed entry, and only it, logs
\* the error and ends, changing nothing else; register is called at most
\* once per entry.
C10_RegFailureIsolated ==
    [][/\ regFailed' # regFailed =>
             /\ pc' = "spawnThread" /\ proc' = proc
             /\ UNCHANGED <<todo, reports, statusErr, worker, handle, workerLog, chan>>
       /\ workerLog' # workerLog =>
             /\ \E k \in regFailed :
                   /\ workerLog' = workerLog \cup {k}
                   /\ worker' = [worker EXCEPT ![k] = "finished"]
             /\ UNCHANGED <<handle, chan, proc>>
             /\ UNCHANGED supVars
       /\ \A k \in KeySet : regCalls'[k] <= 1
       /\ (pc' = "loop" /\ pc # "loop") => \A k \in DOMAIN config : spawns'[k] = 1]_vars

C10_Witness ==
    /\ pc = "loop"
    /\ \E k1, k2 \in DOMAIN config :
          /\ k1 \in workerLog /\ worker[k1] = "finished"
          /\ k2 \notin regFailed /\ worker[k2] = "parked" /\ handle[k2] = "live"

HasReported(st) == \E i \in 1..Len(reports) : reports[i].state = st

\* C11: when a status report fails, run_service returns the error: it is at
\* "failed", no state at or after the failing one is ever reported, and when
\* the failing report is Running no config was loaded, no registration made
\* and no worker spawned.
C11_ReportFailureFatal ==
    statusErr # "none" =>
        /\ pc = "failed"
        /\ \A i \in 1..Len(reports) : Rank(reports[i].state) < Rank(statusErr)
        /\ statusErr = "Running" =>
              /\ config = <<>> /\ ~cfgErr
              /\ \A k \in KeySet : spawns[k] = 0 /\ regCalls[k] = 0 /\ worker[k] = "none"

C11_Witness ==
    /\ statusErr = "StopPending" /\ proc = "exited"
    /\ StatesOf(reports) = <<"Running">>
    /\ \E k \in KeySet : spawns[k] = 1

\* C12 (as claimed): while the process is alive, no registration handle has
\* been released.
C12_HandleKept == proc = "alive" => \A k \in KeySet : handle[k] # "released"

\* C13 (as claimed): register() of an entry is executed by the entry's
\* worker thread, so it is never called for an entry whose thread has not
\* been spawned, and run_service never waits for it.
C13_RegisterOffControlThread ==
    /\ \A k \in KeySet : regCalls[k] <= spawns[k]
    /\ pc # "register_dns"

\* C14 (as claimed): Running has been reported only if the configuration has
\* been loaded and a thread spawned for every entry of the table; a thread
\* has been spawned only if the configuration has been loaded.
C14_RunningAfterSpawns ==
    /\ HasReported("Running") =>
          /\ Loaded
          /\ todo = {}
          /\ \A k \in DOMAIN config : spawns[k] = 1
    /\ (\E k \in KeySet : spawns[k] > 0) => Loaded

\* C15: a receive error in the control loop leaves run_service in the loop
\* and changes neither the reports, the channel, the workers nor the
\* process; the loop is left only by receiving a Stop.
C15_RecvErrFrame ==
    [][/\ recvErrs' # recvErrs =>
             /\ pc = "loop" /\ pc' = "loop"
             /\ UNCHANGED <<reports, statusErr, chan, proc, worker, handle, workerLog, nRecv>>
       /\ (pc = "loop" /\ pc' # "loop") =>
             /\ chan # <<>> /\ Head(chan) = "Stop"
             /\ nRecv' = nRecv + 1
             /\ pc' = "reportStopPending"]_vars

C15_Witness ==
    /\ recvErrs > 0 /\ pc = "loop" /\ StatesOf(reports) = <<"Running">>
    /\ \E k \in KeySet : worker[k] = "parked"

\* C16: a notification other than Interrogate and Stop returns
\* NotImplemented and changes neither the channel, the supervisor, the
\* workers nor the process; the channel holds Stop events only.
C16_OtherDropped ==
    [][/\ (nCalls' = nCalls + 1 /\ cb'.ctl \notin {"Interrogate", "Stop"}) =>
             /\ cb'.result = "NotImplemented"
             /\ UNCHANGED <<chan, nSent, proc, worker, handle, workerLog, nRecv>>
             /\ UNCHANGED supVars
       /\ \A i \in 1..Len(chan') : chan'[i] = "Stop"]_vars

C16_Witness ==
    /\ cb = [ctl |-> "Pause", result |-> "NotImplemented"]
    /\ chan = <<"Stop">> /\ pc = "loop"

\* C17 (as claimed): when run_service has returned Ok, no enqueued event is left
\* in the channel, and every enqueued event was received exactly once.
C17_AllConsumed ==
    pc = "done" => (chan = <<>> /\ nRecv = nSent)

\* C17 (amended): every enqueued event is either still in the channel or was
\* received once; the control loop receives at most one event, and has
\* received exactly one, a Stop, when run_service returns Ok.
C17_ConsumedAtMostOnce ==
    /\ nSent = nRecv + Len(chan)
    /\ nRecv <= 1
    /\ pc = "done" => nRecv = 1

C17_Witness == pc = "done" /\ nSent = 2 /\ nRecv = 1 /\ chan = <<"Stop">>

\* C18: every reported status accepts exactly {Stop} when its state is
\* Running and nothing when its state is StopPending or Stopped; no status
\* reported after StopPending accepts Stop.
C18_AcceptedControls ==
    /\ \A i \in 1..Len(reports) :
          /\ reports[i].state = "Running" => reports[i].accepts = {"Stop"}
          /\ reports[i].state \in {"StopPending", "Stopped"} => reports[i].accepts = {}
    /\ \A i, j \in 1..Len(reports) :
          (i <= j /\ reports[i].state = "StopPending") => "Stop" \notin reports[j].accepts

C18_Witness ==
    /\ pc = "reportStopped"
    /\ reports = <<[state |-> "Running", accepts |-> {"Stop"}],
                  [state |-> "StopPending", accepts |-> {}]>>

\* C19: StopPending or Stopped has been reported, or the control loop left,
\* only if the host delivered a Stop to the callback before.
C19_StopOnlyOnRequest ==
    /\ (HasReported("StopPending") \/ HasReported("Stopped")) => nStops > 0
    /\ pc \in {"reportStopPending", "reportStopped", "done"} => nStops > 0
    /\ (pc = "failed" /\ statusErr \in {"StopPending", "Stopped"}) => nStops > 0

C19_Witness ==
    /\ HasReported("StopPending") /\ nStops = 1 /\ recvErrs > 0
    /\ cb.ctl = "Stop"
    /\ \E k \in KeySet : worker[k] = "finished"

====
